---------------------------- MODULE Spec2Model ----------------------------
(***************************************************************************)
(* A model of sudoku.c: the multi-threaded Sudoku validator.               *)
(*                                                                         *)
(* main reads a grid, calls checkPuzzle once and prints the result.        *)
(* checkPuzzle scans for zeros, then creates one thread per row, per       *)
(* column and per box, joins rowThreads[i], colThreads[i], boxThreads[i]   *)
(* for i = 1..psize and aggregates the three validity arrays.              *)
(*                                                                         *)
(* Granularity.  The grid is never written, and a row or column worker     *)
(* writes one slot that is fixed by its parameters, so each of these       *)
(* workers is one step.  A box worker reads and writes the unsynchronised  *)
(* global boxCount; the file's compile line (gcc without -O, line 2) makes *)
(* every use of boxCount a memory access, so a box worker is four steps:   *)
(* load boxCount (line 361/364), store the slot, load boxCount (line 366), *)
(* store boxCount.                                                         *)
(*                                                                         *)
(* Undefined behaviour is recorded in ub and, where it decides a value the *)
(* program goes on to use, the value is chosen nondeterministically.       *)
(* Failures of malloc and pthread_create (lines 80-93, 107-110, 125-128,   *)
(* 148-151) are environment faults and are not modelled.                   *)
(***************************************************************************)
EXTENDS Integers, Sequences, FiniteSets, TLC

VARIABLES
  psize,        \* sudokuSize / psize: the size read from the file
  grid,         \* grid[row][col], 1-indexed, never written after reading
  pc,           \* where the main thread is
  complete,     \* main's bool complete
  valid,        \* main's bool valid
  i,            \* loop counter of the main thread (row / col / join / aggregate)
  joinStep,     \* which of the three joins of iteration i comes next
  bRow,         \* row of the box-creation loop
  bCol,         \* col of the box-creation loop
  count,        \* count of the box-creation loop
  rowValidity,  \* int* rowValidity, slots 1..psize
  colValidity,  \* int* colValidity
  boxValidity,  \* int* boxValidity
  freed,        \* the three validity arrays have been freed
  rowT,         \* row worker threads: "none" | "run" | "done"
  colT,         \* column worker threads
  boxT,         \* box worker threads, in creation order: records
  boxCount,     \* the global int boxCount
  out,          \* lines written to standard output, in order
  printed,      \* the grid as printSudokuPuzzle wrote it (<<>> before)
  ub,           \* kinds of undefined behaviour the run has executed
  foundOut,     \* indices outside 1..size at which a checker indexed foundVals
  calls,        \* number of checkPuzzle calls started
  results,      \* (complete, valid) pairs of earlier checkPuzzle calls
  uKind,        \* unit harness: which checker is applied
  uSize,        \* unit harness: N
  uVals,        \* unit harness: the unit's N values, in cell order
  uVerdict,     \* unit harness: verdict written by the last check (-1: none)
  uFirst,       \* unit harness: verdict written by the first check (-1: none)
  uPermuted     \* unit harness: the unit's values have been permuted

vars == <<psize, grid, pc, complete, valid, i, joinStep, bRow, bCol, count,
          rowValidity, colValidity, boxValidity, freed, rowT, colT, boxT,
          boxCount, out, printed, ub, foundOut, calls,
          results, uKind, uSize, uVals, uVerdict, uFirst, uPermuted>>

mainVars == <<psize, grid, pc, complete, valid, i, joinStep, bRow, bCol, count,
              rowValidity, colValidity, boxValidity, freed, rowT, colT, boxT,
              boxCount, out, printed, ub, foundOut, calls,
              results>>

unitVars == <<uKind, uSize, uVals, uVerdict, uFirst, uPermuted>>

-----------------------------------------------------------------------------
(* Verdict codes of the validity arrays.                                   *)

UNCHECKED == -1
INVALID == 0
VALID == 1

(* Bounds of the model.                                                    *)

(* Cell values of the varied cell range over -ValSlack .. N + ValSlack.    *)
ValSlack == 1
(* Row and column workers that are created and unfinished at one time:     *)
(* the interleavings explored are those in which the main thread creates   *)
(* the next row or column thread once fewer than MaxRunning are            *)
(* unfinished.  Box workers are not bounded.                               *)
MaxRunning == 2
(* Calls of checkPuzzle in one process under SpecTwice.                    *)
MaxCalls == 2
(* Largest unit length of the unit-checker harness.                        *)
MaxUnitLen == 4

-----------------------------------------------------------------------------
(* Pure functions of the source.                                           *)

(* (int) sqrt(n) for n >= 0.                                               *)
ISqrt(n) == CHOOSE b \in 0..n : b * b <= n /\ (b + 1) * (b + 1) > n

(* Inner loop of verifyPuzzleComplete: a zero sets complete = false and    *)
(* breaks out of the column loop only.                                     *)
RECURSIVE ScanCols(_, _, _, _, _)
ScanCols(puzzle, size, row, col, c) ==
  IF col > size THEN c
  ELSE IF puzzle[row][col] = 0 THEN FALSE
  ELSE ScanCols(puzzle, size, row, col + 1, c)

(* A variant that forgets what earlier rows found.                         *)
RECURSIVE ScanRowsForgetful(_, _, _, _)
ScanRowsForgetful(puzzle, size, row, c) ==
  IF row > size THEN c
  ELSE ScanRowsForgetful(puzzle, size, row + 1,
                         ScanCols(puzzle, size, row, 1, TRUE))

(* Outer loop of verifyPuzzleComplete: complete is carried across rows.    *)
RECURSIVE ScanRows(_, _, _, _)
ScanRows(puzzle, size, row, c) ==
  IF row > size THEN c
  ELSE ScanRows(puzzle, size, row + 1, ScanCols(puzzle, size, row, 1, c))

verifyPuzzleComplete(puzzle, size) == ScanRows(puzzle, size, 1, TRUE)

(* foundVals after "initialize all values to zero": slots 1..size.         *)
InitFound(size) == [k \in 1..size |-> 0]

(* foundVals[v] = 1.  Slot 0 exists in the array (size + 1 ints) but is    *)
(* never scanned; any other index outside 1..size is outside the array.    *)
MarkFound(found, v, size) ==
  IF v \in 1..size THEN [found EXCEPT ![v] = 1] ELSE found

(* A variant whose loop stops one cell early.                              *)
RECURSIVE MarkAllButLast(_, _, _, _)
MarkAllButLast(found, vals, k, size) ==
  IF k >= Len(vals) THEN found
  ELSE MarkAllButLast(MarkFound(found, vals[k], size), vals, k + 1, size)

(* The marking loop over the unit's cells, in the order the code visits.   *)
RECURSIVE MarkAll(_, _, _, _)
MarkAll(found, vals, k, size) ==
  IF k > Len(vals) THEN found
  ELSE MarkAll(MarkFound(found, vals[k], size), vals, k + 1, size)

(* The scan "if (foundVals[i] == 0) { valid = false; break; }".            *)
RECURSIVE ScanFound(_, _, _)
ScanFound(found, k, size) ==
  IF k > size THEN TRUE
  ELSE IF found[k] = 0 THEN FALSE
  ELSE ScanFound(found, k + 1, size)

(* The verdict a checker writes for the cell values vals.                  *)
UnitVerdict(vals, size) ==
  IF ScanFound(MarkAll(InitFound(size), vals, 1, size), 1, size)
  THEN VALID ELSE INVALID

(* Indices at which the marking loop touches foundVals outside 1..size.    *)
OutsideIndices(vals, size) ==
  {vals[k] : k \in 1..Len(vals)} \ (1..size)

(* Indices outside the array foundVals[0..size] itself.                    *)
OutsideArray(vals, size) ==
  {vals[k] : k \in 1..Len(vals)} \ (0..size)

(* The verdicts a checker can write: one, unless a store went outside      *)
(* foundVals, after which the scan's outcome is not determined.            *)
Verdicts(vals, size) ==
  IF OutsideArray(vals, size) = {} THEN {UnitVerdict(vals, size)}
  ELSE {INVALID, VALID}

(* The cells the three checkers visit, in visiting order.                  *)
RowVals(puzzle, row, size) == [k \in 1..size |-> puzzle[row][k]]

ColVals(puzzle, col, size) == [k \in 1..size |-> puzzle[k][col]]

BoxCells(row, col, size) ==
  LET length == ISqrt(size)
  IN  [k \in 1..(length * length) |->
         <<row + ((k - 1) \div length), col + ((k - 1) % length)>>]

InGrid(cell, size) == cell[1] \in 1..size /\ cell[2] \in 1..size

(* The values of the box's cells that lie in the grid, in visiting order.  *)
RECURSIVE CellVals(_, _, _, _)
CellVals(puzzle, cells, k, size) ==
  IF k > Len(cells) THEN <<>>
  ELSE (IF InGrid(cells[k], size)
        THEN <<puzzle[cells[k][1]][cells[k][2]]>> ELSE <<>>)
       \o CellVals(puzzle, cells, k + 1, size)

BoxVals(puzzle, row, col, size) ==
  CellVals(puzzle, BoxCells(row, col, size), 1, size)

(* The box has a cell outside the allocated grid: the read is undefined.   *)
BoxOutsideGrid(row, col, size) ==
  \E k \in DOMAIN BoxCells(row, col, size) :
     ~InGrid(BoxCells(row, col, size)[k], size)

-----------------------------------------------------------------------------
(* Input grids.                                                            *)

Sizes == {0, 1, 2, 4}

(* A grid of each size whose rows and columns are permutations; for sizes  *)
(* 1 and 4 its boxes are too.                                              *)
BaseGrid(n) ==
  IF n = 4 THEN <<<<1, 2, 3, 4>>, <<3, 4, 1, 2>>, <<2, 1, 4, 3>>, <<4, 3, 2, 1>>>>
  ELSE IF n = 2 THEN <<<<1, 2>>, <<2, 1>>>>
  ELSE IF n = 1 THEN <<<<1>>>>
  ELSE <<>>

(* Rows and columns are permutations, the boxes are not.                   *)
LatinGrid == <<<<1, 2, 3, 4>>, <<2, 3, 4, 1>>, <<3, 4, 1, 2>>, <<4, 1, 2, 3>>>>

SetCell(g, r, c, v) == [g EXCEPT ![r][c] = v]

CellValues(n) == (0 - ValSlack)..(n + ValSlack)

(* Grids with a zero somewhere: one zero anywhere, or zeros in two rows.   *)
IncompleteGrids(n) ==
  {SetCell(BaseGrid(n), r, c, 0) : r \in 1..n, c \in 1..n}
  \cup {SetCell(SetCell(BaseGrid(n), 1, c, 0), n, n, 0) : c \in 1..n}

(* Complete grids.  Size 4: the solved grid and the latin square.  Size 2: *)
(* the latin square.  Size 1: every nonzero value of the cell.             *)
CompleteGrids(n) ==
  IF n = 4 THEN {BaseGrid(4), LatinGrid}
  ELSE IF n = 1 THEN {SetCell(BaseGrid(1), 1, 1, v) : v \in CellValues(1) \ {0}}
  ELSE {BaseGrid(n)}

Grids(n) == CompleteGrids(n) \cup IncompleteGrids(n)

-----------------------------------------------------------------------------
(* Initial states.                                                         *)

UnitIdle ==
  /\ uKind = "none"
  /\ uSize = 0
  /\ uVals = <<>>
  /\ uVerdict = UNCHECKED
  /\ uFirst = UNCHECKED
  /\ uPermuted = FALSE

MainInit(sizes) ==
  /\ psize \in sizes
  /\ grid \in Grids(psize)
  /\ pc = "start"
  /\ complete = FALSE
  /\ valid = FALSE
  /\ i = 0
  /\ joinStep = "none"
  /\ bRow = 0
  /\ bCol = 0
  /\ count = 0
  /\ rowValidity = <<>>
  /\ colValidity = <<>>
  /\ boxValidity = <<>>
  /\ freed = FALSE
  /\ rowT = <<>>
  /\ colT = <<>>
  /\ boxT = <<>>
  /\ boxCount = 1
  /\ out = <<>>
  /\ printed = <<>>
  /\ ub = {}
  /\ foundOut = {}
  /\ calls = 0
  /\ results = <<>>

Init == MainInit(Sizes) /\ UnitIdle

-----------------------------------------------------------------------------
(* checkPuzzle, main thread.                                               *)

(* A variant that presets *valid = true on entry, before the scan.         *)
CheckCompleteSetsValid ==
  /\ pc = "start"
  /\ calls' = calls + 1
  /\ valid' = TRUE
  /\ complete' = verifyPuzzleComplete(grid, psize)
  /\ IF complete'
     THEN /\ rowValidity' = [k \in 1..psize |-> UNCHECKED]
          /\ colValidity' = [k \in 1..psize |-> UNCHECKED]
          /\ boxValidity' = [k \in 1..psize |-> UNCHECKED]
          /\ rowT' = [k \in 1..psize |-> "none"]
          /\ colT' = [k \in 1..psize |-> "none"]
          /\ boxT' = <<>>
          /\ freed' = FALSE
          /\ pc' = "createRow"
          /\ i' = 1
     ELSE /\ pc' = "returned"
          /\ UNCHANGED <<rowValidity, colValidity, boxValidity,
                         rowT, colT, boxT, freed, i>>
  /\ UNCHANGED <<psize, grid, joinStep, bRow, bCol, count, boxCount,
                 out, printed, ub, foundOut, results>>
  /\ UNCHANGED unitVars

(* Lines 47-72: the completeness scan; on a complete grid the three        *)
(* validity arrays are allocated and filled with -1.                       *)
CheckComplete ==
  /\ pc = "start"
  /\ calls' = calls + 1
  /\ complete' = verifyPuzzleComplete(grid, psize)
  /\ IF complete'
     THEN /\ rowValidity' = [k \in 1..psize |-> UNCHECKED]
          /\ colValidity' = [k \in 1..psize |-> UNCHECKED]
          /\ boxValidity' = [k \in 1..psize |-> UNCHECKED]
          /\ rowT' = [k \in 1..psize |-> "none"]
          /\ colT' = [k \in 1..psize |-> "none"]
          /\ boxT' = <<>>
          /\ freed' = FALSE
          /\ pc' = "createRow"
          /\ i' = 1
     ELSE /\ pc' = "returned"
          /\ UNCHANGED <<rowValidity, colValidity, boxValidity,
                         rowT, colT, boxT, freed, i>>
  /\ UNCHANGED <<psize, grid, valid, joinStep, bRow, bCol, count, boxCount,
                 out, printed, ub, foundOut, results>>
  /\ UNCHANGED unitVars

(* Row and column workers created and not yet finished.                    *)
Running ==
  Cardinality({r \in DOMAIN rowT : rowT[r] = "run"})
  + Cardinality({c \in DOMAIN colT : colT[c] = "run"})

(* Lines 96-111: one iteration of the row loop.                            *)
CreateRow ==
  /\ pc = "createRow"
  /\ i <= psize
  /\ Running < MaxRunning
  /\ rowT' = [rowT EXCEPT ![i] = "run"]
  /\ i' = i + 1
  /\ UNCHANGED <<psize, grid, pc, complete, valid, joinStep, bRow, bCol, count,
                 rowValidity, colValidity, boxValidity, freed, colT, boxT,
                 boxCount, out, printed, ub, foundOut, calls,
                 results>>
  /\ UNCHANGED unitVars

(* Line 96 false, line 114: the row loop ends, the column loop starts.     *)
RowsCreated ==
  /\ pc = "createRow"
  /\ i > psize
  /\ pc' = "createCol"
  /\ i' = 1
  /\ UNCHANGED <<psize, grid, complete, valid, joinStep, bRow, bCol, count,
                 rowValidity, colValidity, boxValidity, freed, rowT, colT, boxT,
                 boxCount, out, printed, ub, foundOut, calls,
                 results>>
  /\ UNCHANGED unitVars

(* Lines 114-129: one iteration of the column loop.                        *)
CreateCol ==
  /\ pc = "createCol"
  /\ i <= psize
  /\ Running < MaxRunning
  /\ colT' = [colT EXCEPT ![i] = "run"]
  /\ i' = i + 1
  /\ UNCHANGED <<psize, grid, pc, complete, valid, joinStep, bRow, bCol, count,
                 rowValidity, colValidity, boxValidity, freed, rowT, boxT,
                 boxCount, out, printed, ub, foundOut, calls,
                 results>>
  /\ UNCHANGED unitVars

(* Lines 132-137: the column loop ends; boxSize, count and the box loop.   *)
ColsCreated ==
  /\ pc = "createCol"
  /\ i > psize
  /\ pc' = "createBox"
  /\ i' = 0
  /\ bRow' = 1
  /\ bCol' = 1
  /\ count' = 1
  /\ UNCHANGED <<psize, grid, complete, valid, joinStep,
                 rowValidity, colValidity, boxValidity, freed, rowT, colT, boxT,
                 boxCount, out, printed, ub, foundOut, calls,
                 results>>
  /\ UNCHANGED unitVars

(* A variant that passes the box's corner with row and column exchanged.   *)
CreateBoxTransposed ==
  /\ pc = "createBox"
  /\ bRow <= psize
  /\ bCol <= psize
  /\ boxT' = Append(boxT, [row |-> bCol, column |-> bRow, at |-> "index",
                           verdict |-> UNCHECKED, idx |-> 0])
  /\ ub' = IF count > psize THEN ub \cup {"boxThreads"} ELSE ub
  /\ count' = count + 1
  /\ bCol' = bCol + ISqrt(psize)
  /\ UNCHANGED <<psize, grid, pc, complete, valid, i, joinStep, bRow,
                 rowValidity, colValidity, boxValidity, freed, rowT, colT,
                 boxCount, out, printed, foundOut, calls,
                 results>>
  /\ UNCHANGED unitVars

(* Lines 137-153: one iteration of the inner box loop.  boxThreads has     *)
(* slots 0..psize; a thread id stored at count > psize is outside it.      *)
CreateBox ==
  /\ pc = "createBox"
  /\ bRow <= psize
  /\ bCol <= psize
  /\ boxT' = Append(boxT, [row |-> bRow, column |-> bCol, at |-> "index",
                           verdict |-> UNCHECKED, idx |-> 0])
  /\ ub' = IF count > psize THEN ub \cup {"boxThreads"} ELSE ub
  /\ count' = count + 1
  /\ bCol' = bCol + ISqrt(psize)
  /\ UNCHANGED <<psize, grid, pc, complete, valid, i, joinStep, bRow,
                 rowValidity, colValidity, boxValidity, freed, rowT, colT,
                 boxCount, out, printed, foundOut, calls,
                 results>>
  /\ UNCHANGED unitVars

(* Line 137 false: the inner loop ends, the outer loop steps a box row.    *)
BoxRowCreated ==
  /\ pc = "createBox"
  /\ bRow <= psize
  /\ bCol > psize
  /\ bRow' = bRow + ISqrt(psize)
  /\ bCol' = 1
  /\ UNCHANGED <<psize, grid, pc, complete, valid, i, joinStep, count,
                 rowValidity, colValidity, boxValidity, freed, rowT, colT, boxT,
                 boxCount, out, printed, ub, foundOut, calls,
                 results>>
  /\ UNCHANGED unitVars

(* Line 136 false: the box loop ends, the join loop starts.                 *)
BoxesCreated ==
  /\ pc = "createBox"
  /\ bRow > psize
  /\ bRow' = 0
  /\ bCol' = 0
  /\ count' = 0
  /\ i' = 1
  /\ pc' = "join"
  /\ joinStep' = "row"
  /\ UNCHANGED <<psize, grid, complete, valid,
                 rowValidity, colValidity, boxValidity, freed, rowT, colT, boxT,
                 boxCount, out, printed, ub, foundOut, calls,
                 results>>
  /\ UNCHANGED unitVars

(* Lines 157-161: the three joins of iteration i, each blocking until the  *)
(* thread has ended.  Box threads beyond boxThreads[psize] are not joined. *)
JoinRow ==
  /\ pc = "join"
  /\ i <= psize
  /\ joinStep = "row"
  /\ rowT[i] = "done"
  /\ joinStep' = "col"
  /\ UNCHANGED <<psize, grid, pc, complete, valid, i, bRow, bCol, count,
                 rowValidity, colValidity, boxValidity, freed, rowT, colT, boxT,
                 boxCount, out, printed, ub, foundOut, calls,
                 results>>
  /\ UNCHANGED unitVars

JoinCol ==
  /\ pc = "join"
  /\ i <= psize
  /\ joinStep = "col"
  /\ colT[i] = "done"
  /\ joinStep' = "box"
  /\ UNCHANGED <<psize, grid, pc, complete, valid, i, bRow, bCol, count,
                 rowValidity, colValidity, boxValidity, freed, rowT, colT, boxT,
                 boxCount, out, printed, ub, foundOut, calls,
                 results>>
  /\ UNCHANGED unitVars

(* A variant of the join loop that waits for the box thread after the one  *)
(* of iteration i.                                                         *)
JoinBoxOffByOne ==
  /\ pc = "join"
  /\ i <= psize
  /\ joinStep = "box"
  /\ i + 1 <= Len(boxT)
  /\ boxT[i + 1].at = "done"
  /\ joinStep' = "row"
  /\ i' = i + 1
  /\ UNCHANGED <<psize, grid, pc, complete, valid, bRow, bCol, count,
                 rowValidity, colValidity, boxValidity, freed, rowT, colT, boxT,
                 boxCount, out, printed, ub, foundOut, calls,
                 results>>
  /\ UNCHANGED unitVars

JoinBox ==
  /\ pc = "join"
  /\ i <= psize
  /\ joinStep = "box"
  /\ i <= Len(boxT)
  /\ boxT[i].at = "done"
  /\ joinStep' = "row"
  /\ i' = i + 1
  /\ UNCHANGED <<psize, grid, pc, complete, valid, bRow, bCol, count,
                 rowValidity, colValidity, boxValidity, freed, rowT, colT, boxT,
                 boxCount, out, printed, ub, foundOut, calls,
                 results>>
  /\ UNCHANGED unitVars

(* Line 157 false, line 164: the join loop ends and *valid = true.         *)
JoinsDone ==
  /\ pc = "join"
  /\ i > psize
  /\ valid' = TRUE
  /\ pc' = "aggregate"
  /\ i' = 1
  /\ joinStep' = "none"
  /\ UNCHANGED <<psize, grid, complete, bRow, bCol, count,
                 rowValidity, colValidity, boxValidity, freed, rowT, colT, boxT,
                 boxCount, out, printed, ub, foundOut, calls,
                 results>>
  /\ UNCHANGED unitVars

(* A variant of the aggregation test that does not look at a box slot's    *)
(* INVALID verdict.                                                        *)
AggregateCaseBoxVerdictIgnored(k) ==
  IF rowValidity[k] = UNCHECKED THEN "rows"
  ELSE IF colValidity[k] = UNCHECKED THEN "columns"
  ELSE IF boxValidity[k] = UNCHECKED THEN "boxes"
  ELSE IF rowValidity[k] = INVALID \/ colValidity[k] = INVALID THEN "invalid"
  ELSE "next"

(* What iteration i of the aggregation loop (lines 166-189) does:          *)
(* "row", "col", "box": the ERROR line for an unchecked slot and return;   *)
(* "invalid": a slot is 0, return; "next": go on.                          *)
AggregateCase(k) ==
  IF rowValidity[k] = UNCHECKED THEN "rows"
  ELSE IF colValidity[k] = UNCHECKED THEN "columns"
  ELSE IF boxValidity[k] = UNCHECKED THEN "boxes"
  ELSE IF rowValidity[k] = INVALID \/ colValidity[k] = INVALID
          \/ boxValidity[k] = INVALID THEN "invalid"
  ELSE "next"

ErrorLine(what) == "ERROR: not all " \o what \o " were checked"

(* Lines 169-183: an unchecked slot prints ERROR, sets *valid = false and  *)
(* returns.                                                                *)
AggregateUnchecked ==
  /\ pc = "aggregate"
  /\ i <= psize
  /\ AggregateCase(i) \in {"rows", "columns", "boxes"}
  /\ out' = Append(out, ErrorLine(AggregateCase(i)))
  /\ valid' = FALSE
  /\ pc' = "returned"
  /\ i' = 0
  /\ UNCHANGED <<psize, grid, complete, joinStep, bRow, bCol, count,
                 rowValidity, colValidity, boxValidity, freed, rowT, colT, boxT,
                 boxCount, printed, ub, foundOut, calls, results>>
  /\ UNCHANGED unitVars

(* Lines 185-188: an INVALID slot sets *valid = false and returns.         *)
AggregateInvalid ==
  /\ pc = "aggregate"
  /\ i <= psize
  /\ AggregateCase(i) = "invalid"
  /\ valid' = FALSE
  /\ pc' = "returned"
  /\ i' = 0
  /\ UNCHANGED <<psize, grid, complete, joinStep, bRow, bCol, count,
                 rowValidity, colValidity, boxValidity, freed, rowT, colT, boxT,
                 boxCount, out, printed, ub, foundOut, calls,
                 results>>
  /\ UNCHANGED unitVars

(* Line 166: the three slots of iteration i are VALID.                     *)
AggregateNext ==
  /\ pc = "aggregate"
  /\ i <= psize
  /\ AggregateCase(i) = "next"
  /\ i' = i + 1
  /\ UNCHANGED <<psize, grid, pc, complete, valid, joinStep, bRow, bCol, count,
                 rowValidity, colValidity, boxValidity, freed, rowT, colT, boxT,
                 boxCount, out, printed, ub, foundOut, calls,
                 results>>
  /\ UNCHANGED unitVars

(* Lines 191-199: the loop ends, the arrays are freed, checkPuzzle returns.*)
AggregateDone ==
  /\ pc = "aggregate"
  /\ i > psize
  /\ freed' = TRUE
  /\ pc' = "returned"
  /\ i' = 0
  /\ UNCHANGED <<psize, grid, complete, valid, joinStep, bRow, bCol, count,
                 rowValidity, colValidity, boxValidity, rowT, colT, boxT,
                 boxCount, out, printed, ub, foundOut, calls,
                 results>>
  /\ UNCHANGED unitVars

-----------------------------------------------------------------------------
(* The worker threads.  A thread runs from its creation until the process  *)
(* ends.                                                                   *)

ProcessAlive == pc # "exit"

(* deleteSudokuPuzzle has freed the grid.                                  *)
GridFreed == pc = "deleted"

(* Kinds of undefined behaviour in a checker's marking loop over vals.     *)
MarkUB(vals, size) ==
  (IF OutsideArray(vals, size) # {} THEN {"foundVals"} ELSE {})
  \cup (IF GridFreed THEN {"gridFreed"} ELSE {})

(* The verdicts a checker run now can write.                               *)
VerdictsNow(vals, size) ==
  IF GridFreed THEN {INVALID, VALID} ELSE Verdicts(vals, size)

(* A variant of checkRow that stores its verdict in the next row's slot.   *)
RowWorkerNextSlot(r) ==
  /\ ProcessAlive
  /\ rowT[r] = "run"
  /\ \E v \in VerdictsNow(RowVals(grid, r, psize), psize) :
       rowValidity' = [rowValidity EXCEPT ![(r % psize) + 1] = v]
  /\ rowT' = [rowT EXCEPT ![r] = "done"]
  /\ foundOut' = foundOut \cup OutsideIndices(RowVals(grid, r, psize), psize)
  /\ ub' = ub \cup MarkUB(RowVals(grid, r, psize), psize)
  /\ UNCHANGED <<psize, grid, pc, complete, valid, i, joinStep, bRow, bCol,
                 count, colValidity, boxValidity, freed, colT, boxT,
                 boxCount, out, printed, calls, results>>
  /\ UNCHANGED unitVars

(* checkRow, lines 249-282.                                                *)
RowWorker(r) ==
  /\ ProcessAlive
  /\ rowT[r] = "run"
  /\ \E v \in VerdictsNow(RowVals(grid, r, psize), psize) :
       rowValidity' = [rowValidity EXCEPT ![r] = v]
  /\ rowT' = [rowT EXCEPT ![r] = "done"]
  /\ foundOut' = foundOut \cup OutsideIndices(RowVals(grid, r, psize), psize)
  /\ ub' = ub \cup MarkUB(RowVals(grid, r, psize), psize)
  /\ UNCHANGED <<psize, grid, pc, complete, valid, i, joinStep, bRow, bCol,
                 count, colValidity, boxValidity, freed, colT, boxT,
                 boxCount, out, printed, calls, results>>
  /\ UNCHANGED unitVars

(* checkCol, lines 288-321.                                                *)
ColWorker(c) ==
  /\ ProcessAlive
  /\ colT[c] = "run"
  /\ \E v \in VerdictsNow(ColVals(grid, c, psize), psize) :
       colValidity' = [colValidity EXCEPT ![c] = v]
  /\ colT' = [colT EXCEPT ![c] = "done"]
  /\ foundOut' = foundOut \cup OutsideIndices(ColVals(grid, c, psize), psize)
  /\ ub' = ub \cup MarkUB(ColVals(grid, c, psize), psize)
  /\ UNCHANGED <<psize, grid, pc, complete, valid, i, joinStep, bRow, bCol,
                 count, rowValidity, boxValidity, freed, rowT, boxT,
                 boxCount, out, printed, calls, results>>
  /\ UNCHANGED unitVars

(* checkBox, lines 328-361/364: the marking loop, the scan, and the load   *)
(* of boxCount that indexes the validity array.                            *)
BoxIndex(k) ==
  /\ ProcessAlive
  /\ boxT[k].at = "index"
  /\ LET vals == BoxVals(grid, boxT[k].row, boxT[k].column, psize)
         outside == BoxOutsideGrid(boxT[k].row, boxT[k].column, psize)
     IN  /\ \E v \in (IF outside THEN {INVALID, VALID}
                       ELSE VerdictsNow(vals, psize)) :
               boxT' = [boxT EXCEPT ![k].at = "write", ![k].verdict = v,
                                    ![k].idx = boxCount]
         /\ foundOut' = foundOut \cup OutsideIndices(vals, psize)
         /\ ub' = ub \cup MarkUB(vals, psize)
                      \cup (IF outside THEN {"gridRead"} ELSE {})
  /\ UNCHANGED <<psize, grid, pc, complete, valid, i, joinStep, bRow, bCol,
                 count, rowValidity, colValidity, boxValidity, freed, rowT,
                 colT, boxCount, out, printed, calls, results>>
  /\ UNCHANGED unitVars

(* The store params->validity[boxCount] = 0 or 1 lands in the array when   *)
(* the index loaded is one of its slots and the array is still allocated.  *)
SlotInArray(idx) == idx \in 1..psize /\ ~freed

(* checkBox, lines 361/364: the store into the validity array.             *)
BoxWrite(k) ==
  /\ ProcessAlive
  /\ boxT[k].at = "write"
  /\ IF SlotInArray(boxT[k].idx)
     THEN /\ boxValidity' = [boxValidity EXCEPT ![boxT[k].idx] = boxT[k].verdict]
          /\ ub' = ub
     ELSE /\ ub' = ub \cup {"boxValidity"}
          /\ UNCHANGED boxValidity
  /\ boxT' = [boxT EXCEPT ![k].at = "load", ![k].verdict = UNCHECKED,
                          ![k].idx = 0]
  /\ UNCHANGED <<psize, grid, pc, complete, valid, i, joinStep, bRow, bCol,
                 count, rowValidity, colValidity, freed, rowT, colT,
                 boxCount, out, printed, foundOut, calls, results>>
  /\ UNCHANGED unitVars

(* checkBox, line 366: the load of boxCount.                               *)
BoxLoad(k) ==
  /\ ProcessAlive
  /\ boxT[k].at = "load"
  /\ boxT' = [boxT EXCEPT ![k].at = "store", ![k].idx = boxCount]
  /\ UNCHANGED <<psize, grid, pc, complete, valid, i, joinStep, bRow, bCol,
                 count, rowValidity, colValidity, boxValidity, freed, rowT,
                 colT, boxCount, out, printed, ub, foundOut,
                 calls, results>>
  /\ UNCHANGED unitVars

(* A variant of line 366 that advances the counter by two.                 *)
BoxStoreByTwo(k) ==
  /\ ProcessAlive
  /\ boxT[k].at = "store"
  /\ boxCount' = boxT[k].idx + 2
  /\ boxT' = [boxT EXCEPT ![k].at = "done", ![k].idx = 0]
  /\ UNCHANGED <<psize, grid, pc, complete, valid, i, joinStep, bRow, bCol,
                 count, rowValidity, colValidity, boxValidity, freed, rowT,
                 colT, out, printed, ub, foundOut, calls,
                 results>>
  /\ UNCHANGED unitVars

(* checkBox, line 366: the store boxCount = (value loaded) + 1; the thread *)
(* ends.                                                                   *)
BoxStore(k) ==
  /\ ProcessAlive
  /\ boxT[k].at = "store"
  /\ boxCount' = boxT[k].idx + 1
  /\ boxT' = [boxT EXCEPT ![k].at = "done", ![k].idx = 0]
  /\ UNCHANGED <<psize, grid, pc, complete, valid, i, joinStep, bRow, bCol,
                 count, rowValidity, colValidity, boxValidity, freed, rowT,
                 colT, out, printed, ub, foundOut, calls,
                 results>>
  /\ UNCHANGED unitVars

-----------------------------------------------------------------------------
(* main after checkPuzzle has returned, lines 396-404.                     *)

BoolText(b) == IF b THEN "true" ELSE "false"

CompleteLine(b) == "Complete puzzle? " \o BoolText(b)

ValidLine(b) == "Valid puzzle? " \o BoolText(b)

(* Lines 396-398.                                                          *)
PrintComplete ==
  /\ pc = "returned"
  /\ out' = Append(out, CompleteLine(complete))
  /\ pc' = IF complete THEN "printValid" ELSE "printGrid"
  /\ UNCHANGED <<psize, grid, complete, valid, i, joinStep, bRow, bCol, count,
                 rowValidity, colValidity, boxValidity, freed, rowT, colT, boxT,
                 boxCount, printed, ub, foundOut, calls, results>>
  /\ UNCHANGED unitVars

(* Lines 399-400.                                                          *)
PrintValid ==
  /\ pc = "printValid"
  /\ out' = Append(out, ValidLine(valid))
  /\ pc' = "printGrid"
  /\ UNCHANGED <<psize, grid, complete, valid, i, joinStep, bRow, bCol, count,
                 rowValidity, colValidity, boxValidity, freed, rowT, colT, boxT,
                 boxCount, printed, ub, foundOut, calls, results>>
  /\ UNCHANGED unitVars

(* A variant of printSudokuPuzzle that prints the grid column by column.   *)
PrintGridTransposed ==
  /\ pc = "printGrid"
  /\ out' = Append(out, "grid")
  /\ printed' = [r \in 1..psize |-> [c \in 1..psize |-> grid[c][r]]]
  /\ pc' = "delete"
  /\ UNCHANGED <<psize, grid, complete, valid, i, joinStep, bRow, bCol, count,
                 rowValidity, colValidity, boxValidity, freed, rowT, colT, boxT,
                 boxCount, ub, foundOut, calls, results>>
  /\ UNCHANGED unitVars

(* Line 402: printSudokuPuzzle.                                            *)
PrintGrid ==
  /\ pc = "printGrid"
  /\ out' = Append(out, "grid")
  /\ printed' = [r \in 1..psize |-> [c \in 1..psize |-> grid[r][c]]]
  /\ pc' = "delete"
  /\ UNCHANGED <<psize, grid, complete, valid, i, joinStep, bRow, bCol, count,
                 rowValidity, colValidity, boxValidity, freed, rowT, colT, boxT,
                 boxCount, ub, foundOut, calls, results>>
  /\ UNCHANGED unitVars

(* Line 403: deleteSudokuPuzzle.                                           *)
DeleteGrid ==
  /\ pc = "delete"
  /\ pc' = "deleted"
  /\ UNCHANGED <<psize, grid, complete, valid, i, joinStep, bRow, bCol, count,
                 rowValidity, colValidity, boxValidity, freed, rowT, colT, boxT,
                 boxCount, out, printed, ub, foundOut, calls,
                 results>>
  /\ UNCHANGED unitVars

(* Line 404: main returns and the process, with every thread, ends.        *)
Exit ==
  /\ pc = "deleted"
  /\ pc' = "exit"
  /\ UNCHANGED <<psize, grid, complete, valid, i, joinStep, bRow, bCol, count,
                 rowValidity, colValidity, boxValidity, freed, rowT, colT, boxT,
                 boxCount, out, printed, ub, foundOut, calls,
                 results>>
  /\ UNCHANGED unitVars

-----------------------------------------------------------------------------
MainThread ==
  \/ CheckComplete
  \/ CreateRow
  \/ RowsCreated
  \/ CreateCol
  \/ ColsCreated
  \/ CreateBox
  \/ BoxRowCreated
  \/ BoxesCreated
  \/ JoinRow
  \/ JoinCol
  \/ JoinBox
  \/ JoinsDone
  \/ AggregateUnchecked
  \/ AggregateInvalid
  \/ AggregateNext
  \/ AggregateDone

Workers ==
  \/ \E r \in DOMAIN rowT : RowWorker(r)
  \/ \E c \in DOMAIN colT : ColWorker(c)
  \/ \E k \in DOMAIN boxT : BoxIndex(k)
  \/ \E k \in DOMAIN boxT : BoxWrite(k)
  \/ \E k \in DOMAIN boxT : BoxLoad(k)
  \/ \E k \in DOMAIN boxT : BoxStore(k)

MainAfter ==
  \/ PrintComplete
  \/ PrintValid
  \/ PrintGrid
  \/ DeleteGrid
  \/ Exit

Next == MainThread \/ Workers \/ MainAfter

Spec == Init /\ [][Next]_vars

-----------------------------------------------------------------------------
(* A caller that calls checkPuzzle again on the same grid, with the same   *)
(* complete and valid, once the previous call has returned and every       *)
(* thread of it has ended.                                                 *)

AllThreadsEnded ==
  /\ \A r \in DOMAIN rowT : rowT[r] # "run"
  /\ \A c \in DOMAIN colT : colT[c] # "run"
  /\ \A k \in DOMAIN boxT : boxT[k].at = "done"

CallAgain ==
  /\ pc = "returned"
  /\ calls < MaxCalls
  /\ AllThreadsEnded
  /\ results' = Append(results, <<complete, valid>>)
  /\ pc' = "start"
  /\ UNCHANGED <<psize, grid, complete, valid, i, joinStep, bRow, bCol, count,
                 rowValidity, colValidity, boxValidity, freed, rowT, colT, boxT,
                 boxCount, out, printed, ub, foundOut, calls>>
  /\ UNCHANGED unitVars

TwiceSizes == {0, 1}

InitTwice == MainInit(TwiceSizes) /\ UnitIdle

NextTwice == Next \/ CallAgain

SpecTwice == InitTwice /\ [][NextTwice]_vars

(* Fair scheduling.  The program does not halt while a thread can take a   *)
(* step: the main thread runs unless it waits in pthread_join for a thread *)
(* that has not ended, and a created worker thread is eventually run.      *)
(* No behaviour takes infinitely many steps, so fairness of the whole      *)
(* next-state relation says the same as fairness of each thread.  The      *)
(* schedules considered keep at most FairRunning row and column workers    *)
(* unfinished at a time; the box workers interleave freely.                *)
FairRunning == 1

FairSizes == {0, 1, 4}

FairInit ==
  /\ MainInit(FairSizes)
  /\ psize = 4 => grid \in {BaseGrid(4)} \cup IncompleteGrids(4)
  /\ UnitIdle

FairNext == Next /\ Running' <= FairRunning

FairSpec == FairInit /\ [][FairNext]_vars /\ WF_vars(FairNext)

-----------------------------------------------------------------------------
(* The unit checkers applied to one unit at a time: checkRow to row 1,     *)
(* checkCol to column 1, checkBox to the box at (1, 1) of a grid that      *)
(* holds the unit's values there, in cell order.  Between checks the       *)
(* unit's values are permuted by swapping two cells.                       *)

IsSquare(n) == n >= 0 /\ ISqrt(n) * ISqrt(n) = n

UnitKinds(n) == IF IsSquare(n) THEN {"row", "col", "box"} ELSE {"row", "col"}

(* The position, in the unit's cell order, of grid cell (r, c); 0 if the   *)
(* cell is not in the unit.                                                *)
UnitPos(kind, n, r, c) ==
  IF kind = "row" THEN (IF r = 1 THEN c ELSE 0)
  ELSE IF kind = "col" THEN (IF c = 1 THEN r ELSE 0)
  ELSE IF r <= ISqrt(n) /\ c <= ISqrt(n) THEN (r - 1) * ISqrt(n) + c
  ELSE 0

UnitGrid(kind, n, vals) ==
  [r \in 1..n |-> [c \in 1..n |->
     IF UnitPos(kind, n, r, c) = 0 THEN 1 ELSE vals[UnitPos(kind, n, r, c)]]]

(* The verdict the checker of the given kind writes.                       *)
CheckerVerdict(kind, n, vals) ==
  IF kind = "row" THEN UnitVerdict(RowVals(UnitGrid(kind, n, vals), 1, n), n)
  ELSE IF kind = "col" THEN UnitVerdict(ColVals(UnitGrid(kind, n, vals), 1, n), n)
  ELSE UnitVerdict(BoxVals(UnitGrid(kind, n, vals), 1, 1, n), n)

MainIdle ==
  /\ psize = 0
  /\ grid = <<>>
  /\ pc = "exit"
  /\ complete = FALSE
  /\ valid = FALSE
  /\ i = 0
  /\ joinStep = "none"
  /\ bRow = 0
  /\ bCol = 0
  /\ count = 0
  /\ rowValidity = <<>>
  /\ colValidity = <<>>
  /\ boxValidity = <<>>
  /\ freed = FALSE
  /\ rowT = <<>>
  /\ colT = <<>>
  /\ boxT = <<>>
  /\ boxCount = 1
  /\ out = <<>>
  /\ printed = <<>>
  /\ ub = {}
  /\ foundOut = {}
  /\ calls = 0
  /\ results = <<>>

UnitInit ==
  /\ MainIdle
  /\ uSize \in 1..MaxUnitLen
  /\ uKind \in UnitKinds(uSize)
  /\ uVals \in [1..uSize -> 1..uSize]
  /\ uVerdict = UNCHECKED
  /\ uFirst = UNCHECKED
  /\ uPermuted = FALSE

UnitCheck ==
  /\ uKind # "none"
  /\ uVerdict = UNCHECKED
  /\ uVerdict' = CheckerVerdict(uKind, uSize, uVals)
  /\ uFirst' = IF uFirst = UNCHECKED THEN uVerdict' ELSE uFirst
  /\ UNCHANGED <<uKind, uSize, uVals, uPermuted>>
  /\ UNCHANGED mainVars

UnitPermute ==
  /\ uKind # "none"
  /\ uVerdict # UNCHECKED
  /\ \E a \in 1..uSize, b \in 1..uSize :
       /\ a < b
       /\ uVals' = [uVals EXCEPT ![a] = uVals[b], ![b] = uVals[a]]
  /\ uVerdict' = UNCHECKED
  /\ uPermuted' = TRUE
  /\ UNCHANGED <<uKind, uSize, uFirst>>
  /\ UNCHANGED mainVars

UnitNext == UnitCheck \/ UnitPermute

UnitSpec == UnitInit /\ [][UnitNext]_vars

-----------------------------------------------------------------------------
(* What the claims speak of.                                               *)

Cells(n) == (1..n) \X (1..n)

HasZero(g, n) == \E rc \in Cells(n) : g[rc[1]][rc[2]] = 0

(* Every cell holds 0 or a value of 1..n, as the input format requires.    *)
GridInDomain(g, n) == \A rc \in Cells(n) : g[rc[1]][rc[2]] \in 0..n

(* The units of an n x n grid as sets of cells, n = b * b.                 *)
RowUnit(r, n) == {<<r, c>> : c \in 1..n}

ColUnit(c, n) == {<<r, c>> : r \in 1..n}

BoxUnit(br, bc, b) ==
  {<<(br - 1) * b + dr, (bc - 1) * b + dc>> : dr \in 1..b, dc \in 1..b}

Units(n) ==
  {RowUnit(r, n) : r \in 1..n} \cup {ColUnit(c, n) : c \in 1..n}
  \cup {BoxUnit(br, bc, ISqrt(n)) : br \in 1..ISqrt(n), bc \in 1..ISqrt(n)}

IsPermutationUnit(g, unit, n) == {g[rc[1]][rc[2]] : rc \in unit} = 1..n

AllUnitsPermutations(g, n) == \A unit \in Units(n) : IsPermutationUnit(g, unit, n)

(* The inputs the data model admits: a perfect-square size, cells in 0..N. *)
AdmittedInput == IsSquare(psize) /\ GridInDomain(grid, psize)

NoWorkerCreated ==
  /\ \A r \in DOMAIN rowT : rowT[r] = "none"
  /\ \A c \in DOMAIN colT : colT[c] = "none"
  /\ boxT = <<>>

SomeSlotUnchecked ==
  \E k \in DOMAIN boxValidity :
     \/ rowValidity[k] = UNCHECKED
     \/ colValidity[k] = UNCHECKED
     \/ boxValidity[k] = UNCHECKED

Lines == {out[k] : k \in DOMAIN out}

-----------------------------------------------------------------------------
(* C1.  For a complete grid of perfect-square size, checkPuzzle returns    *)
(* complete = true and valid = true exactly when every row, column and box *)
(* is a permutation of 1..N, whatever the interleaving of the workers.     *)
(* Stated for grids whose cells are in 1..N.                               *)
C1_ValidIffPermutations ==
  (pc = "returned" /\ calls = 1 /\ AdmittedInput /\ ~HasZero(grid, psize))
    => (complete /\ (valid <=> AllUnitsPermutations(grid, psize)))

(* C2.  For a grid with a cell equal to 0, wherever the cell is,           *)
(* verifyPuzzleComplete returns false, complete stays false, and no row,   *)
(* column or box worker thread is ever created.                            *)
C2_IncompleteNeverDispatches ==
  HasZero(grid, psize)
    => /\ verifyPuzzleComplete(grid, psize) = FALSE
       /\ complete = FALSE
       /\ NoWorkerCreated
       /\ pc \in {"start", "returned", "printGrid", "delete", "deleted", "exit"}

(* C2 witness: a grid whose only zero is the last cell of the first row    *)
(* has been checked and reported incomplete.                               *)
C2_Witness ==
  /\ psize = 4
  /\ grid = SetCell(BaseGrid(4), 1, 4, 0)
  /\ pc = "exit"
  /\ complete = FALSE
  /\ out = <<CompleteLine(FALSE), "grid">>
  /\ NoWorkerCreated

(* C3.  Two calls of checkPuzzle on the same grid in one process return    *)
(* the same (complete, valid) pair.                                        *)
C3_SecondCallSameResult ==
  (pc = "returned" /\ AdmittedInput)
    => \A k \in DOMAIN results : results[k] = <<complete, valid>>

(* C4.  For a size that is not a perfect square, or is <= 0, checkPuzzle   *)
(* rejects the size before creating any worker: no worker thread exists,   *)
(* never more than N box workers, and no validity verdict is printed.      *)
BadSize(n) == n <= 0 \/ ~IsSquare(n)

C4_BadSizeRejected ==
  BadSize(psize)
    => /\ NoWorkerCreated
       /\ Len(boxT) <= psize
       /\ pc \notin {"createRow", "createCol", "createBox", "join", "aggregate"}
       /\ Lines \cap {ValidLine(TRUE), ValidLine(FALSE)} = {}

(* C5.  When a result slot is still UNCHECKED after the join, the run does *)
(* not report "Valid puzzle? false".  Stated for admitted inputs.          *)
C5_UncheckedNotReportedInvalid ==
  (pc = "exit" /\ calls = 1 /\ complete /\ AdmittedInput /\ SomeSlotUnchecked)
    => ValidLine(FALSE) \notin Lines

(* C6.  A unit of a grid without zeros that holds a value outside 1..N is  *)
(* given INVALID, and no checker indexes foundVals outside 1..N.           *)
OutOfRange(vals, n) == \E k \in DOMAIN vals : vals[k] \notin 1..n

C6_OutOfRangeUnitInvalid ==
  /\ foundOut = {}
  /\ \A r \in DOMAIN rowT :
       (rowT[r] = "done" /\ OutOfRange(RowVals(grid, r, psize), psize))
         => rowValidity[r] = INVALID
  /\ \A c \in DOMAIN colT :
       (colT[c] = "done" /\ OutOfRange(ColVals(grid, c, psize), psize))
         => colValidity[c] = INVALID
  /\ \A k \in DOMAIN boxT :
       (boxT[k].at = "write"
        /\ OutOfRange(BoxVals(grid, boxT[k].row, boxT[k].column, psize), psize))
         => boxT[k].verdict = INVALID

(* C7.  The output is the "Complete puzzle?" line, then the "Valid         *)
(* puzzle?" line exactly when complete is true, with the validity          *)
(* checkPuzzle computed, then the grid.  Stated for admitted inputs.       *)
ExpectedOutput ==
  IF complete
  THEN <<CompleteLine(TRUE), ValidLine(valid), "grid">>
  ELSE <<CompleteLine(FALSE), "grid">>

C7_OutputOrder ==
  (pc = "exit" /\ calls = 1 /\ AdmittedInput) => out = ExpectedOutput

(* C8.  The unit checkers are order-independent: after any permutation of  *)
(* a unit's N values in 1..N the verdict written is the one written        *)
(* before, and it is VALID exactly when all of 1..N occur.                 *)
C8_UnitOrderIndependent ==
  (uKind # "none" /\ uVerdict # UNCHECKED)
    => /\ uVerdict = uFirst
       /\ (uVerdict = VALID) <=> ({uVals[k] : k \in 1..uSize} = 1..uSize)

(* C8 witness: a permutation of 1..4 has been permuted and checked again   *)
(* by checkBox.                                                            *)
C8_Witness ==
  /\ uKind = "box"
  /\ uPermuted
  /\ uSize = 4
  /\ uVals = <<4, 3, 1, 2>>
  /\ uFirst = VALID
  /\ uVerdict = VALID

(* C9.  Each slot of boxValidity is written by at most one worker: a box   *)
(* worker's store always lands on a slot that is still UNCHECKED.          *)
(* Stated for admitted inputs.                                             *)
C9_SlotWrittenOnce ==
  [][\A k \in DOMAIN boxT :
       (AdmittedInput /\ boxT[k].at = "write" /\ boxT'[k].at = "load"
        /\ SlotInArray(boxT[k].idx))
         => boxValidity[boxT[k].idx] = UNCHECKED]_vars

(* C10.  For a complete grid of perfect-square size, after the join no     *)
(* slot 1..N of the three validity arrays is UNCHECKED.                    *)
C10_NoSlotUncheckedAfterJoin ==
  (pc = "aggregate" /\ calls = 1 /\ AdmittedInput) => ~SomeSlotUnchecked

(* C11.  The box dispatched k-th in row-major order writes boxValidity[k], *)
(* whatever the order in which the box workers run: the index a box worker *)
(* holds for its store is its dispatch number.  Stated for admitted        *)
(* inputs.                                                                 *)
C11_BoxSlotIsDispatchNumber ==
  AdmittedInput
    => \A k \in DOMAIN boxT : boxT[k].at = "write" => boxT[k].idx = k

(* C12.  The aggregation loop reads a result slot only after every         *)
(* dispatched row, column and box worker has ended.                        *)
C12_JoinBeforeAggregate ==
  pc = "aggregate" => AllThreadsEnded

(* C13.  For a complete grid with N = B * B, checkPuzzle dispatches one    *)
(* worker per row 1..N, one per column 1..N, and N box workers whose       *)
(* corners are ((br-1)*B+1, (bc-1)*B+1) in row-major order; each box       *)
(* worker reads exactly the B x B cells of its block; the blocks are       *)
(* disjoint and cover the grid.                                            *)
BoxCorner(k, b) == <<((k - 1) \div b) * b + 1, ((k - 1) % b) * b + 1>>

CellsRead(box) ==
  LET cells == BoxCells(box.row, box.column, psize)
  IN  {cells[j] : j \in DOMAIN cells}

C13_DispatchesEveryUnitOnce ==
  [][(pc = "createBox" /\ pc' = "join" /\ IsSquare(psize)
      /\ ~HasZero(grid, psize))
     => LET b == ISqrt(psize)
        IN  /\ DOMAIN rowT' = 1..psize
            /\ \A r \in 1..psize : rowT'[r] # "none"
            /\ DOMAIN colT' = 1..psize
            /\ \A c \in 1..psize : colT'[c] # "none"
            /\ Len(boxT') = psize
            /\ \A k \in 1..psize :
                 /\ <<boxT'[k].row, boxT'[k].column>> = BoxCorner(k, b)
                 /\ CellsRead(boxT'[k])
                      = BoxUnit(((k - 1) \div b) + 1, ((k - 1) % b) + 1, b)
                 /\ \A j \in (k + 1)..psize :
                      CellsRead(boxT'[k]) \cap CellsRead(boxT'[j]) = {}
            /\ UNION {CellsRead(boxT'[k]) : k \in 1..psize} = Cells(psize)
    ]_vars

(* C13 witness: the four box workers of a complete 4 x 4 grid have been    *)
(* dispatched.                                                             *)
C13_Witness ==
  /\ pc = "join"
  /\ psize = 4
  /\ Len(boxT) = 4
  /\ <<boxT[3].row, boxT[3].column>> = <<3, 1>>

(* C15.  No step changes a grid cell, and the grid that is printed after   *)
(* checkPuzzle is the grid that was read.                                  *)
C15_GridReadOnly ==
  [][/\ grid' = grid
     /\ psize' = psize
     /\ (pc = "printGrid" /\ pc' = "delete") => printed' = grid
    ]_vars

(* C15 witness: a complete 4 x 4 grid has been validated by all its        *)
(* workers and printed.                                                    *)
C15_Witness ==
  /\ pc = "exit"
  /\ psize = 4
  /\ complete
  /\ AllThreadsEnded
  /\ printed = grid

(* C16.  For a complete grid of perfect-square size with cells in 1..N,    *)
(* under every interleaving, valid = true at the return implies that every *)
(* row, column and box is a permutation of 1..N: a lost update of boxCount *)
(* never makes the result of an invalid puzzle true.                       *)
C16_ValidImpliesPermutations ==
  (pc \in {"returned", "printValid", "printGrid", "delete", "deleted", "exit"}
   /\ AdmittedInput /\ ~HasZero(grid, psize) /\ valid)
    => AllUnitsPermutations(grid, psize)

(* C16 witness: a valid 4 x 4 puzzle whose box workers lost an update of   *)
(* boxCount has returned valid = false.                                    *)
C16_Witness ==
  /\ pc = "returned"
  /\ psize = 4
  /\ AllUnitsPermutations(grid, psize)
  /\ boxCount < psize + 1
  /\ AllThreadsEnded
  /\ valid = FALSE

(* C17.  For a perfect-square size with cells in 0..N and boxCount = 1 at  *)
(* entry, boxCount stays in 1..N+1 and every box worker's store goes to an *)
(* index in 1..N of boxValidity, under every interleaving.                 *)
C17_BoxCountInBounds ==
  AdmittedInput
    => /\ boxCount \in 1..(psize + 1)
       /\ \A k \in DOMAIN boxT :
            boxT[k].at \in {"write", "store"} => boxT[k].idx \in 1..psize
       /\ "boxValidity" \notin ub

(* C17 witness: the four box workers of a 4 x 4 grid have all finished     *)
(* and the counter has reached N + 1.                                      *)
C17_Witness ==
  /\ psize = 4
  /\ Len(boxT) = 4
  /\ AllThreadsEnded
  /\ boxCount = 5

(* C18.  The worker of row r writes only rowValidity[r] and the worker of  *)
(* column c only colValidity[c], once: a row or column slot is UNCHECKED   *)
(* exactly while its worker has not finished, and after the join every row *)
(* and column slot is VALID or INVALID, so that a slot still UNCHECKED is  *)
(* a box slot.  Stated for admitted inputs.                                *)
C18_RowColSlotsRaceFree ==
  AdmittedInput
    => /\ \A r \in DOMAIN rowT :
            IF rowT[r] = "done"
            THEN rowValidity[r] \in {INVALID, VALID}
            ELSE rowValidity[r] = UNCHECKED
       /\ \A c \in DOMAIN colT :
            IF colT[c] = "done"
            THEN colValidity[c] \in {INVALID, VALID}
            ELSE colValidity[c] = UNCHECKED
       /\ pc = "aggregate"
            => \A k \in 1..psize :
                 /\ rowValidity[k] \in {INVALID, VALID}
                 /\ colValidity[k] \in {INVALID, VALID}

(* C18 witness: after the join of a 4 x 4 grid a box slot is UNCHECKED     *)
(* while every row and column slot holds a verdict.                        *)
C18_Witness ==
  /\ pc = "aggregate"
  /\ psize = 4
  /\ \E k \in 1..psize : boxValidity[k] = UNCHECKED
  /\ \A k \in 1..psize :
       rowValidity[k] # UNCHECKED /\ colValidity[k] # UNCHECKED

(* C19.  When the grid holds a 0, checkPuzzle writes *complete only:       *)
(* valid keeps the value main passed in (false), boxCount keeps its value  *)
(* 1, no validity array is allocated and nothing is freed.                 *)
C19_IncompleteWritesCompleteOnly ==
  HasZero(grid, psize)
    => /\ valid = FALSE
       /\ boxCount = 1
       /\ rowValidity = <<>> /\ colValidity = <<>> /\ boxValidity = <<>>
       /\ ~freed
       /\ ub = {}
       /\ calls = 1 => ~complete

(* C19 witness: checkPuzzle has returned on a 4 x 4 grid whose last cell   *)
(* is 0.                                                                   *)
C19_Witness ==
  /\ pc = "returned"
  /\ calls = 1
  /\ psize = 4
  /\ grid = SetCell(BaseGrid(4), 4, 4, 0)
  /\ ~complete
  /\ valid = FALSE

(* C14.  For a size that is a perfect square, under fair scheduling every  *)
(* dispatched worker runs to completion, every join returns, and           *)
(* checkPuzzle returns with complete set.                                  *)
C14_CheckPuzzleTerminates ==
  (pc = "start" /\ IsSquare(psize))
    ~> (/\ pc = "returned"
        /\ calls = 1
        /\ AllThreadsEnded
        /\ complete = ~HasZero(grid, psize))

(* C14 witness: checkPuzzle has returned on a complete 4 x 4 grid after    *)
(* all twelve workers have ended.                                          *)
C14_Witness ==
  /\ pc = "returned"
  /\ psize = 4
  /\ complete
  /\ Len(boxT) = 4
  /\ AllThreadsEnded

=============================================================================
